---- MODULE Spec2Model ----
(***************************************************************************)
(* Movie search / favorites application (nmy-ra-toolkit).                  *)
(*                                                                         *)
(* The redux store has three slices: movies (search session), favorites    *)
(* and search (query text and recent searches).  The slices' reducers are  *)
(* operators on the slice state, the hook and component handlers are       *)
(* actions that apply them in the order the handler dispatches them.       *)
(*                                                                         *)
(* Strings that the code inspects character by character (trim,            *)
(* toLowerCase, length, the IMDb id pattern, parseInt) are sequences of    *)
(* one-character strings; strings that are only compared are TLA+ strings. *)
(*                                                                         *)
(* The specifications share the variables:                                 *)
(*   SpecFav     the favorites slice and its dispatch sites                *)
(*   SpecRecent  the recent-searches list of the search slice              *)
(*   Spec        the search session: thunks, reducers, hook                *)
(*   SpecEntry   the components that start a search                        *)
(*   SpecCharts  the statistics of the Charts page                         *)
(*   SpecThunk   one call of searchMoviesAsync                             *)
(*   SpecOverlap overlapping searches and clearSearch, two terms           *)
(*   SpecRace    the same with load-more                                   *)
(*   SpecPage    the favorites page and its confirmation dialog            *)
(***************************************************************************)
EXTENDS Integers, Sequences, FiniteSets, TLC

(***************************************************************************)
(* Strings as character sequences                                          *)
(***************************************************************************)
\* JS whitespace as far as the inputs used here go: the blank.
IsSpace(c) == c = " "

RECURSIVE TrimStart(_)
TrimStart(s) ==
  IF s = <<>> THEN <<>>
  ELSE IF IsSpace(Head(s)) THEN TrimStart(Tail(s)) ELSE s

RECURSIVE TrimEnd(_)
TrimEnd(s) ==
  IF s = <<>> THEN <<>>
  ELSE IF IsSpace(s[Len(s)]) THEN TrimEnd(SubSeq(s, 1, Len(s) - 1)) ELSE s

\* String.prototype.trim
Trim(s) == TrimEnd(TrimStart(s))

LowerChar(c) ==
  CASE c = "A" -> "a" [] c = "B" -> "b" [] c = "M" -> "m" [] c = "O" -> "o"
    [] c = "T" -> "t" [] c = "U" -> "u" [] c = "P" -> "p"
    [] OTHER -> c

\* String.prototype.toLowerCase
ToLowerCase(s) == [i \in 1..Len(s) |-> LowerChar(s[i])]

Digits == {"0", "1", "2", "3", "4", "5", "6", "7", "8", "9"}

DigitVal(c) ==
  CASE c = "0" -> 0 [] c = "1" -> 1 [] c = "2" -> 2 [] c = "3" -> 3
    [] c = "4" -> 4 [] c = "5" -> 5 [] c = "6" -> 6 [] c = "7" -> 7
    [] c = "8" -> 8 [] c = "9" -> 9

(***************************************************************************)
(* Movies (services/types/movie.ts)                                        *)
(***************************************************************************)
NoPlot == "N/A"
FullPlot == "full plot"

\* The fields of Movie the code reads: imdbID, Year, Type; Plot stands for
\* the optional extended attributes a detail fetch fills in.
Mv(id, year, type, plot) ==
  [imdbID |-> id, Year |-> year, Type |-> type, Plot |-> plot]

IdOf ==
  <<"tt0000001", "tt0000002", "tt0000003", "tt0000004", "tt0000005",
    "tt0000006", "tt0000007", "tt0000008", "tt0000009", "tt0000010",
    "tt0000011", "tt0000012", "tt0000013", "tt0000014", "tt0000015">>

RECURSIVE SeqIds(_)
SeqIds(items) ==
  IF items = <<>> THEN {} ELSE {Head(items).imdbID} \cup SeqIds(Tail(items))

\* items.findIndex(item => item.imdbID === id), JS index (-1 when absent)
FindIndex(items, id) ==
  IF \E i \in 1..Len(items) : items[i].imdbID = id
  THEN (CHOOSE i \in 1..Len(items) :
          /\ items[i].imdbID = id
          /\ \A j \in 1..(i - 1) : items[j].imdbID # id) - 1
  ELSE -1

\* items.splice(index, 1) with a JS index inside the array
Splice1(items, index) ==
  SubSeq(items, 1, index) \o SubSeq(items, index + 2, Len(items))

NoDuplicateIds(items) ==
  \A i, j \in 1..Len(items) : items[i].imdbID = items[j].imdbID => i = j

(***************************************************************************)
(* favoritesSlice                                                          *)
(***************************************************************************)
VARIABLES
  favItems,   \* state.favorites.items
  favLast,    \* history: the last favorites operation, [kind, movie, id]
  favBefore,  \* history: favItems before the last operation
  favPair     \* history: when the last two operations were toggleFavorite
              \* of the same item, the list before the first of them

favVars == <<favItems, favLast, favBefore, favPair>>

MaxFavId == 3
FavIds == {IdOf[i] : i \in 1..MaxFavId}
\* Payloads: every id in its search-result shape and its detail shape.
FavMovies == {Mv(id, "2012", "movie", p) : id \in FavIds, p \in {NoPlot, FullPlot}}

NoMovie == Mv("", "", "", "")
FavOp(kind, movie, id) == [kind |-> kind, movie |-> movie, id |-> id]
NoPair == [active |-> FALSE, items |-> <<>>]

\* addToFavorites without the membership test
addToFavorites_nocheck(items, movie) == Append(items, movie)

\* reducer addToFavorites
addToFavorites(items, movie) ==
  IF ~(\E i \in 1..Len(items) : items[i].imdbID = movie.imdbID)
  THEN Append(items, movie)
  ELSE items

\* removeFromFavorites dropping the first entry when the id is present
removeFromFavorites_head(items, id) ==
  IF \E i \in 1..Len(items) : items[i].imdbID = id THEN Tail(items) ELSE items

\* reducer removeFromFavorites
removeFromFavorites(items, id) ==
  LET Keep(item) == item.imdbID # id IN SelectSeq(items, Keep)

\* toggleFavorite splicing at index 0 instead of the index found
toggleFavorite_splice0(items, movie) ==
  LET existingIndex == FindIndex(items, movie.imdbID) IN
  IF existingIndex >= 0 THEN Splice1(items, 0) ELSE Append(items, movie)

\* reducer toggleFavorite
toggleFavorite(items, movie) ==
  LET existingIndex == FindIndex(items, movie.imdbID) IN
  IF existingIndex >= 0 THEN Splice1(items, existingIndex) ELSE Append(items, movie)

\* reducer clearFavorites
clearFavorites(items) == <<>>

FavStep(kind, movie, id, next) ==
  /\ favItems' = next
  /\ favLast' = FavOp(kind, movie, id)
  /\ favBefore' = favItems
  /\ favPair' =
       IF kind = "toggleFavorite" /\ favLast = FavOp(kind, movie, id)
       THEN [active |-> TRUE, items |-> favBefore]
       ELSE NoPair

\* useFavorites.addFavorite / dispatch(addToFavorites(movie))
AddToFavorites ==
  \E m \in FavMovies : FavStep("addToFavorites", m, m.imdbID, addToFavorites(favItems, m))

\* useFavorites.removeFavorite / dispatch(removeFromFavorites(id))
RemoveFromFavorites ==
  \E id \in FavIds :
    FavStep("removeFromFavorites", NoMovie, id, removeFromFavorites(favItems, id))

\* useFavorites.toggleMovieFavorite / dispatch(toggleFavorite(movie))
ToggleFavorite ==
  \E m \in FavMovies : FavStep("toggleFavorite", m, m.imdbID, toggleFavorite(favItems, m))

\* useFavorites.clearAllFavorites / dispatch(clearFavorites())
ClearFavorites == FavStep("clearFavorites", NoMovie, "", clearFavorites(favItems))

\* MovieCard.handleToggleFavorite without a custom handler: the isFavorite
\* prop (default false) is whatever the parent passed at render time.
HandleToggleFavorite ==
  \E m \in FavMovies, isFavorite \in BOOLEAN :
    FavStep("handleToggleFavorite", m, m.imdbID,
            IF isFavorite THEN removeFromFavorites(favItems, m.imdbID)
            ELSE addToFavorites(favItems, m))

FavInit ==
  /\ favItems = <<>>
  /\ favLast = FavOp("init", NoMovie, "")
  /\ favBefore = <<>>
  /\ favPair = NoPair


(***************************************************************************)
(* searchSlice: recent searches and their localStorage entry               *)
(***************************************************************************)
VARIABLES
  recentSearches, \* state.search.recentSearches
  lsRecent,       \* localStorage['recentSearches']: [kind, value]
  storageOk,      \* environment: localStorage.setItem succeeds
  recLast,        \* history: the last recent-searches operation, [kind, term]
  recBefore,      \* history: recentSearches before the last operation
  recOps          \* number of operations dispatched since start-up

recVars == <<recentSearches, lsRecent, storageOk, recLast, recBefore, recOps>>

MAX_RECENT_SEARCHES == 10
MIN_RECENT_LENGTH == 2

\* A stored entry is absent, text that JSON.parse rejects, or the JSON text of
\* a string array; JSON.stringify followed by JSON.parse returns the array.
LsAbsent == [kind |-> "absent", value |-> <<>>]
LsGarbage == [kind |-> "garbage", value |-> <<>>]
LsJson(searches) == [kind |-> "json", value |-> searches]

\* loadRecentSearches
loadRecentSearches(ls) == IF ls.kind = "json" THEN ls.value ELSE <<>>

\* saveRecentSearches that skips the write of an empty list
saveRecentSearches_skipempty(ls, searches, ok) ==
  IF ok /\ searches # <<>> THEN LsJson(searches) ELSE ls

\* saveRecentSearches: the write is lost when setItem throws
saveRecentSearches(ls, searches, ok) == IF ok THEN LsJson(searches) ELSE ls

\* action.payload.trim().toLowerCase()
Normalize(term) == ToLowerCase(Trim(term))

\* addRecentSearch that keeps an existing occurrence
addRecentSearch_nofilter(searches, term) ==
  LET query == Normalize(term)
      added == <<query>> \o searches
  IN IF query # <<>> /\ Len(query) > MIN_RECENT_LENGTH
     THEN IF Len(added) > MAX_RECENT_SEARCHES
          THEN SubSeq(added, 1, MAX_RECENT_SEARCHES) ELSE added
     ELSE searches

\* addRecentSearch that truncates one entry too late
addRecentSearch_slice11(searches, term) ==
  LET query == Normalize(term)
      Keep(search) == search # query
      added == <<query>> \o SelectSeq(searches, Keep)
  IN IF query # <<>> /\ Len(query) > MIN_RECENT_LENGTH
     THEN IF Len(added) > MAX_RECENT_SEARCHES + 1
          THEN SubSeq(added, 1, MAX_RECENT_SEARCHES + 1) ELSE added
     ELSE searches

\* addRecentSearch that accepts every term that is not empty
addRecentSearch_short(searches, term) ==
  LET query == Normalize(term)
      Keep(search) == search # query
      added == <<query>> \o SelectSeq(searches, Keep)
  IN IF query # <<>>
     THEN IF Len(added) > MAX_RECENT_SEARCHES
          THEN SubSeq(added, 1, MAX_RECENT_SEARCHES) ELSE added
     ELSE searches

\* reducer addRecentSearch: the list it leaves
addRecentSearch(searches, term) ==
  LET query == Normalize(term)
      Keep(search) == search # query
      added == <<query>> \o SelectSeq(searches, Keep)
  IN IF query # <<>> /\ Len(query) > MIN_RECENT_LENGTH
     THEN IF Len(added) > MAX_RECENT_SEARCHES
          THEN SubSeq(added, 1, MAX_RECENT_SEARCHES) ELSE added
     ELSE searches

\* reducer addRecentSearch: saveRecentSearches runs only inside the if
addRecentSearchSaves(term) ==
  LET query == Normalize(term) IN query # <<>> /\ Len(query) > MIN_RECENT_LENGTH

\* reducer removeRecentSearch
removeRecentSearch(searches, term) ==
  LET Keep(search) == search # term IN SelectSeq(searches, Keep)

\* reducer clearRecentSearches
clearRecentSearches(searches) == <<>>

\* Terms: "moa", "mob", ... are distinct normalized terms.
Letter == <<"a", "b", "c", "d", "e", "f", "g", "h", "i", "j", "k", "l", "n", "r">>
Term(k) == <<"m", "o", Letter[k]>>

NumTerms == 12
\* Raw inputs: the normalized terms, padded and upper-case spellings of two
\* of them, terms too short after trimming, the empty and the blank string.
RecentInputs ==
  {Term(k) : k \in 1..NumTerms}
  \cup {<<" ", "M", "O", "a", " ">>, <<"M", "o", "b">>, <<"m", "o", "a", " ">>}
  \cup {<<"u", "p">>, <<" ", "u", "p", " ">>, <<"U", "P", " ">>, <<>>, <<" ", " ", " ">>}

\* Lists the program wrote in an earlier session: Term(1) .. Term(n) recorded
\* in that order.
Chain(n) == [i \in 1..n |-> Term(n - i + 1)]
StoredEntries ==
  {LsAbsent, LsGarbage} \cup {LsJson(Chain(n)) : n \in 0..MAX_RECENT_SEARCHES}

MaxRecentOps == 2

RecOp(kind, term) == [kind |-> kind, term |-> term]

\* A reducer whose failed write is not caught: the exception leaves the
\* reducer and the draft with the new list is dropped
RecStep_throwing(kind, term, next, saves) ==
  /\ recOps < MaxRecentOps
  /\ recentSearches' = IF saves /\ ~storageOk THEN recentSearches ELSE next
  /\ lsRecent' = IF saves THEN saveRecentSearches(lsRecent, next, storageOk) ELSE lsRecent
  /\ recLast' = RecOp(kind, term)
  /\ recBefore' = recentSearches
  /\ recOps' = recOps + 1
  /\ UNCHANGED storageOk

RecStep(kind, term, next, saves) ==
  /\ recOps < MaxRecentOps
  /\ recentSearches' = next
  /\ lsRecent' = IF saves THEN saveRecentSearches(lsRecent, next, storageOk) ELSE lsRecent
  /\ recLast' = RecOp(kind, term)
  /\ recBefore' = recentSearches
  /\ recOps' = recOps + 1
  /\ UNCHANGED storageOk

\* dispatch(addRecentSearch(term))
AddRecentSearch ==
  \E term \in RecentInputs :
    RecStep("addRecentSearch", term, addRecentSearch(recentSearches, term),
            addRecentSearchSaves(term))

\* dispatch(removeRecentSearch(term))
RemoveRecentSearch ==
  \E term \in RecentInputs :
    RecStep("removeRecentSearch", term, removeRecentSearch(recentSearches, term), TRUE)

\* dispatch(clearRecentSearches()); it saves the literal []
ClearRecentSearches ==
  /\ recOps < MaxRecentOps
  /\ recentSearches' = clearRecentSearches(recentSearches)
  /\ lsRecent' = saveRecentSearches(lsRecent, <<>>, storageOk)
  /\ recLast' = RecOp("clearRecentSearches", <<>>)
  /\ recBefore' = recentSearches
  /\ recOps' = recOps + 1
  /\ UNCHANGED storageOk

\* Environment: the storage starts or stops accepting writes.
StorageChanges ==
  /\ storageOk' = ~storageOk
  /\ UNCHANGED <<recentSearches, lsRecent, recLast, recBefore, recOps>>

\* createSlice initialState: recentSearches: loadRecentSearches()
RecentInit ==
  /\ lsRecent \in StoredEntries
  /\ recentSearches = loadRecentSearches(lsRecent)
  /\ storageOk \in BOOLEAN
  /\ recLast = RecOp("init", <<>>)
  /\ recBefore = recentSearches
  /\ recOps = 0


(***************************************************************************)
(* moviesSlice: the search session, its thunks and reducers                *)
(***************************************************************************)
VARIABLES
  moviesState,  \* state.movies: [movies, loading, error, query, totalResults,
                \*                currentPage, currentMovie]
  searchQuery,  \* state.search.query
  searchError,  \* state.search.error
  inflight,     \* requests dispatched and not yet answered, in dispatch order
  rQuery,       \* useMovieSearch's last render: state.search.query,
  rLoading,     \*   state.movies.loading,
  rCurrentPage, \*   state.movies.currentPage (what loadMoreMovies closes over)
  lastOp        \* history: the last handler or reducer that ran

storeVars == <<moviesState, searchQuery, searchError>>
renderVars == <<rQuery, rLoading, rCurrentPage>>
sessionVars == <<moviesState, searchQuery, searchError, inflight, rQuery, rLoading,
                 rCurrentPage, lastOp>>

NoError == "<null>"
Undefined == NoMovie

\* moviesSlice initialState
initialState ==
  [movies |-> <<>>, loading |-> FALSE, error |-> NoError, query |-> <<>>,
   totalResults |-> 0, currentPage |-> 1, currentMovie |-> Undefined]

\* The messages the thunks throw (the Russian texts are abbreviated).
MsgHttpSearch == "Failed to fetch movies"
MsgHttpDetails == "Failed to fetch movie details"
MsgNetwork == "Failed to fetch"
MsgTooMany == "Slishkom mnogo rezultatov"
MsgNotFound == "Film ne nayden"
MsgNoMovies == "Filmy ne naydeny"
MsgDetailsNotFound == "Movie not found"

\* parseInt(s, 10): blanks, an optional sign, then the leading digits; NaN
\* when there is none.
NaN == [nan |-> TRUE, value |-> 0]
Num(n) == [nan |-> FALSE, value |-> n]

RECURSIVE LeadingDigits(_)
LeadingDigits(s) ==
  IF s = <<>> \/ Head(s) \notin Digits THEN <<>>
  ELSE <<Head(s)>> \o LeadingDigits(Tail(s))

RECURSIVE DigitsValue(_)
DigitsValue(ds) ==
  IF ds = <<>> THEN 0
  ELSE 10 * DigitsValue(SubSeq(ds, 1, Len(ds) - 1)) + DigitVal(ds[Len(ds)])

ParseInt(s) ==
  LET t == TrimStart(s)
      neg == t # <<>> /\ Head(t) = "-"
      u == IF t # <<>> /\ Head(t) \in {"-", "+"} THEN Tail(t) ELSE t
      ds == LeadingDigits(u)
  IN IF ds = <<>> THEN NaN
     ELSE IF neg THEN Num(0 - DigitsValue(ds)) ELSE Num(DigitsValue(ds))

\* parseInt(data.totalResults || '0', 10) || 0
ParseTotalResults(text) ==
  LET n == ParseInt(IF text = <<>> THEN <<"0">> ELSE text)
  IN IF n.nan THEN 0 ELSE n.value

\* What the catalog (or the network) answers to one request.
Answer(kind, response, err, search, total, movie) ==
  [kind |-> kind, Response |-> response, Error |-> err, Search |-> search,
   totalResults |-> total, movie |-> movie]

Outcome(type, movies, total, q, page, movie, payload) ==
  [type |-> type, movies |-> movies, totalResults |-> total, query |-> q,
   page |-> page, movie |-> movie, payload |-> payload]

Rejected(msg) == Outcome("rejected", <<>>, 0, <<>>, 0, Undefined, msg)

\* thunk searchMoviesAsync: the action it ends with
searchMoviesAsync(answer, q, page) ==
  IF answer.kind = "network" THEN Rejected(MsgNetwork)
  ELSE IF answer.kind = "http" THEN Rejected(MsgHttpSearch)
  ELSE IF answer.Response = "False"
  THEN IF answer.Error = "Too many results" THEN Rejected(MsgTooMany)
       ELSE IF answer.Error = "Movie not found" THEN Rejected(MsgNotFound)
       ELSE Rejected(IF answer.Error # "" THEN answer.Error ELSE MsgNoMovies)
  ELSE Outcome("fulfilled", answer.Search, ParseTotalResults(answer.totalResults),
               q, page, Undefined, "")

\* thunk getMovieDetailsAsync: the action it ends with
getMovieDetailsAsync(answer) ==
  IF answer.kind = "network" THEN Rejected(MsgNetwork)
  ELSE IF answer.kind = "http" THEN Rejected(MsgHttpDetails)
  ELSE IF answer.Response = "False"
  THEN Rejected(IF answer.Error # "" THEN answer.Error ELSE MsgDetailsNotFound)
  ELSE Outcome("fulfilled", <<>>, 0, <<>>, 0, answer.movie, "")

\* reducer setCurrentPage
setCurrentPage(state, page) == [state EXCEPT !.currentPage = page]

\* clearMovies without the reset of the page cursor
clearMovies_keepPage(state) ==
  [state EXCEPT !.movies = <<>>, !.error = NoError, !.query = <<>>,
                !.totalResults = 0, !.currentMovie = Undefined]

\* reducer clearMovies
clearMovies(state) ==
  [state EXCEPT !.movies = <<>>, !.error = NoError, !.query = <<>>,
                !.totalResults = 0, !.currentPage = 1, !.currentMovie = Undefined]

\* searchMoviesAsync.pending and getMovieDetailsAsync.pending
pending(state) == [state EXCEPT !.loading = TRUE, !.error = NoError]

\* The merge without the filter on the ids already present
mergeMovies_nofilter(old, returned, page) ==
  IF page = 1 THEN returned ELSE old \o returned

\* The list searchMoviesAsync.fulfilled leaves.
mergeMovies(old, returned, page) ==
  IF page = 1 THEN returned
  ELSE LET existing == SeqIds(old)
           NotExisting(m) == m.imdbID \notin existing
       IN old \o SelectSeq(returned, NotExisting)

\* The fulfilled reducer without the assignment of totalResults
searchFulfilled_nototal(state, payload) ==
  [state EXCEPT
     !.loading = FALSE, !.error = NoError, !.query = payload.query,
     !.currentPage = payload.page,
     !.movies = mergeMovies(state.movies, payload.movies, payload.page)]

\* The fulfilled reducer without the assignment of the query
searchFulfilled_noquery(state, payload) ==
  LET list == mergeMovies(state.movies, payload.movies, payload.page)
  IN [state EXCEPT
        !.loading = FALSE, !.error = NoError,
        !.totalResults = payload.totalResults, !.currentPage = payload.page,
        !.movies = list,
        !.currentMovie =
          IF state.currentMovie = Undefined /\ Len(list) > 0
          THEN list[1] ELSE state.currentMovie]

\* The fulfilled reducer that only appends: a page-1 response leaves the list
searchFulfilled_nolist(state, payload) ==
  LET list == IF payload.page = 1 THEN state.movies
              ELSE mergeMovies(state.movies, payload.movies, payload.page)
  IN [state EXCEPT
        !.loading = FALSE, !.error = NoError, !.query = payload.query,
        !.totalResults = payload.totalResults, !.currentPage = payload.page,
        !.movies = list,
        !.currentMovie =
          IF state.currentMovie = Undefined /\ Len(list) > 0
          THEN list[1] ELSE state.currentMovie]

\* searchMoviesAsync.fulfilled
searchFulfilled(state, payload) ==
  LET list == mergeMovies(state.movies, payload.movies, payload.page)
  IN [state EXCEPT
        !.loading = FALSE, !.error = NoError, !.query = payload.query,
        !.totalResults = payload.totalResults, !.currentPage = payload.page,
        !.movies = list,
        !.currentMovie =
          IF state.currentMovie = Undefined /\ Len(list) > 0
          THEN list[1] ELSE state.currentMovie]

\* searchMoviesAsync.rejected
searchRejected(state, payload) ==
  [state EXCEPT !.loading = FALSE, !.error = payload, !.movies = <<>>,
                !.currentMovie = Undefined, !.totalResults = 0]

\* getMovieDetailsAsync.fulfilled
detailsFulfilled(state, movie) ==
  [state EXCEPT !.loading = FALSE, !.currentMovie = movie]

\* getMovieDetailsAsync.rejected
detailsRejected(state, payload) ==
  [state EXCEPT !.loading = FALSE, !.error = payload, !.currentMovie = Undefined]

(***************************************************************************)
(* The catalog's answers and the user's inputs                             *)
(***************************************************************************)
MaxInflight == 2
MaxEntryInflight == 1
MaxPage == 3

\* The catalog items of the search-session specifications: two identifiers,
\* each in its search-result shape and in its detail shape.
CatalogIds == {IdOf[1], IdOf[2]}
CatalogMovies == {Mv(id, "2012", "movie", NoPlot) : id \in CatalogIds}
DetailMovies == {Mv(id, "2012", "movie", FullPlot) : id \in CatalogIds}

\* The Search arrays a response can carry, one that repeats an imdbID included.
Pages == UNION {[1..n -> CatalogMovies] : n \in {0, 1, 2}}

\* totalResults as the provider sends it: decimal digits, missing, or not a number.
TotalTexts == {<<"2">>, <<"1", "2">>, <<>>, <<"N", "/", "A">>}

ProviderErrors ==
  {"Too many results.", "Movie not found!", "Too many results", "Movie not found",
   "Invalid API key!", ""}

FailureAnswers ==
  {Answer("network", "", "", <<>>, <<>>, Undefined),
   Answer("http", "", "", <<>>, <<>>, Undefined)}

SearchFailures ==
  FailureAnswers
  \cup {Answer("json", "False", e, <<>>, <<>>, Undefined) : e \in ProviderErrors}

SearchSuccesses ==
  {Answer("json", "True", "", p, t, Undefined) : p \in Pages, t \in TotalTexts}

DetailFailures ==
  FailureAnswers
  \cup {Answer("json", "False", e, <<>>, <<>>, Undefined) : e \in {"Incorrect IMDb ID.", ""}}

DetailSuccesses == {Answer("json", "True", "", <<>>, <<>>, m) : m \in DetailMovies}

\* The answers the search-session specification draws from.
SessionSearchAnswers ==
  SearchSuccesses
  \cup {a \in SearchFailures : a.kind = "network" \/ a.Error \in {"Movie not found!", "Too many results"}}

IdText == <<"t", "t", "1", "3", "7", "5", "6", "6", "6">>

\* The texts the search-session specification draws from.
SessionInputs == {Term(1), <<>>}

\* The texts and answers the entry-point specification draws from: a term, a
\* term of two characters padded to three, a catalog identifier, the empty text.
EntryInputs == {Term(1), <<"u", "p", " ">>, IdText, <<>>}

EntrySearchAnswers ==
  {a \in SearchSuccesses :
     /\ a.totalResults = <<"2">>
     /\ a.Search \in {<<Mv(IdOf[1], "2012", "movie", NoPlot)>>,
                      <<Mv(IdOf[2], "2012", "movie", NoPlot)>>}}
  \cup {a \in SearchFailures : a.Error = "Movie not found!"}

EntryDetailAnswers ==
  {a \in DetailFailures : a.Error = "Incorrect IMDb ID."}
  \cup {a \in DetailSuccesses : a.movie.imdbID = IdOf[1]}


\* /^tt\d{7,8}$/i
IsImdbId(s) ==
  /\ Len(s) \in {9, 10}
  /\ LowerChar(s[1]) = "t"
  /\ LowerChar(s[2]) = "t"
  /\ \A i \in 3..Len(s) : s[i] \in Digits

(***************************************************************************)
(* useMovieSearch, the components that start a search, and the responses   *)
(***************************************************************************)
Req(thunk, q, page, origin, savedPage) ==
  [thunk |-> thunk, query |-> q, page |-> page, origin |-> origin,
   savedPage |-> savedPage]

NoTag ==
  [kind |-> "init", entry |-> "", term |-> <<>>, page |-> 0, payload |-> <<>>,
   total |-> <<>>, oldLen |-> 0, alone |-> FALSE, threw |-> FALSE]

CallTag(kind, entry, term, page) ==
  [NoTag EXCEPT !.kind = kind, !.entry = entry, !.term = term, !.page = page]

\* The component has rendered the store's present state.
Rendered ==
  /\ rQuery = searchQuery
  /\ rLoading = moviesState.loading
  /\ rCurrentPage = moviesState.currentPage

\* setSearchQuery
SetSearchQuery(text) ==
  /\ searchQuery' = text
  /\ searchError' = NoError

\* addRecentSearch inside a handler of the search session
RecordRecentSearch(text) ==
  /\ recentSearches' = addRecentSearch(recentSearches, text)
  /\ lsRecent' =
       IF addRecentSearchSaves(text)
       THEN saveRecentSearches(lsRecent, addRecentSearch(recentSearches, text), storageOk)
       ELSE lsRecent

\* useMovieSearch.searchMovies(searchQuery, page) up to its first await
searchMovies(entry, text, page) ==
  /\ lastOp' = CallTag("searchMovies", entry, text, page)
  /\ UNCHANGED renderVars
  /\ IF Trim(text) = <<>>
     THEN UNCHANGED <<storeVars, inflight, recentSearches, lsRecent>>
     ELSE /\ SetSearchQuery(text)
          /\ RecordRecentSearch(text)
          /\ moviesState' = pending(moviesState)
          /\ inflight' =
               Append(inflight,
                      IF IsImdbId(Trim(text))
                      THEN Req("details", Trim(text), page, "searchMovies", 0)
                      ELSE Req("search", text, page, "searchMovies", 0))

\* The model's bounds: a handler that would issue a request runs only while
\* fewer than cap requests are in flight, and pages stop at MaxPage.
Room(cap) == Len(inflight) < cap

\* A caller of the hook invokes searchMovies directly.
SearchMovies ==
  Room(MaxInflight) /\ \E text \in SessionInputs : searchMovies("hook", text, 1)

\* useMovieSearch.loadMoreMovies up to its first await; query, loading and
\* currentPage are the values of the render that created the callback.
loadMoreMovies ==
  /\ lastOp' = CallTag("loadMoreMovies", "hook", rQuery, rCurrentPage + 1)
  /\ UNCHANGED <<renderVars, searchQuery, searchError, recentSearches, lsRecent>>
  /\ IF rQuery = <<>> \/ rLoading
     THEN UNCHANGED <<moviesState, inflight>>
     ELSE /\ moviesState' = pending(setCurrentPage(moviesState, rCurrentPage + 1))
          /\ inflight' =
               Append(inflight,
                      Req("search", rQuery, rCurrentPage + 1, "loadMore", rCurrentPage))

LoadMoreMovies == Room(MaxInflight) /\ rCurrentPage < MaxPage /\ loadMoreMovies

\* useMovieSearch.clearSearch
clearSearch ==
  /\ moviesState' = clearMovies(moviesState)
  /\ SetSearchQuery(<<>>)
  /\ UNCHANGED <<inflight, renderVars, recentSearches, lsRecent>>

ClearSearch ==
  /\ lastOp' = [CallTag("clearSearch", "hook", <<>>, 0)
                EXCEPT !.oldLen = Len(moviesState.movies)]
  /\ clearSearch

\* SearchBar/SearchBar.tsx handleSubmit with no onSearch prop (HomePage)
handleSubmit(text) ==
    /\ Rendered
    /\ lastOp' = CallTag("handleSubmit", "searchBar", text, 1)
    /\ UNCHANGED <<renderVars, searchQuery, searchError, recentSearches, lsRecent>>
    /\ IF Trim(text) = <<>>
       THEN UNCHANGED <<moviesState, inflight>>
       ELSE /\ moviesState' = pending(moviesState)
            /\ inflight' = Append(inflight, Req("search", Trim(text), 1, "searchBar", 0))

\* MovieDetails page: the mount effect dispatches getMovieDetailsAsync(id)
DetailsPageLoad ==
  /\ Rendered
  /\ Room(MaxEntryInflight)
  /\ lastOp' = CallTag("detailsPage", "detailsPage", IdText, 0)
  /\ moviesState' = pending(moviesState)
  /\ inflight' = Append(inflight, Req("details", IdText, 0, "detailsPage", 0))
  /\ UNCHANGED <<renderVars, searchQuery, searchError, recentSearches, lsRecent>>

RemoveAt(s, i) == SubSeq(s, 1, i - 1) \o SubSeq(s, i + 1, Len(s))

\* What runs when a searchMoviesAsync request is answered: the reducer of the
\* action the thunk ends with, then the continuation of the caller awaiting
\* unwrap() (loadMoreMovies restores the page it closed over and rethrows,
\* searchMovies rethrows, SearchBar awaits the dispatch without unwrap).
searchAnswered(state, req, outcome) ==
  IF outcome.type = "fulfilled" THEN searchFulfilled(state, outcome)
  ELSE IF req.origin = "loadMore"
       THEN setCurrentPage(searchRejected(state, outcome.payload), req.savedPage)
       ELSE searchRejected(state, outcome.payload)

completeSearch(answers) ==
  \E i \in 1..Len(inflight), answer \in answers :
    LET req == inflight[i]
        outcome == searchMoviesAsync(answer, req.query, req.page)
    IN /\ Rendered
       /\ req.thunk = "search"
       /\ moviesState' = searchAnswered(moviesState, req, outcome)
       /\ inflight' = RemoveAt(inflight, i)
       /\ lastOp' =
            [kind |-> IF outcome.type = "fulfilled" THEN "searchFulfilled"
                      ELSE "searchRejected",
             entry |-> req.origin, term |-> req.query, page |-> req.page,
             payload |-> answer.Search, total |-> answer.totalResults,
             oldLen |-> Len(moviesState.movies), alone |-> Len(inflight) = 1,
             threw |-> outcome.type = "rejected"
                       /\ req.origin \in {"searchMovies", "loadMore"}]
       /\ UNCHANGED <<renderVars, searchQuery, searchError, recentSearches, lsRecent>>

CompleteSearch == completeSearch(SessionSearchAnswers)

\* getMovieDetailsAsync answered: its reducer; searchMovies then returns the
\* item wrapped as a result object, or rethrows.
detailsAnswered(state, outcome) ==
  IF outcome.type = "fulfilled" THEN detailsFulfilled(state, outcome.movie)
  ELSE detailsRejected(state, outcome.payload)

completeDetails(answers) ==
  \E i \in 1..Len(inflight), answer \in answers :
    LET req == inflight[i]
        outcome == getMovieDetailsAsync(answer)
    IN /\ Rendered
       /\ req.thunk = "details"
       /\ moviesState' = detailsAnswered(moviesState, outcome)
       /\ inflight' = RemoveAt(inflight, i)
       /\ lastOp' =
            [kind |-> IF outcome.type = "fulfilled" THEN "detailsFulfilled"
                      ELSE "detailsRejected",
             entry |-> req.origin, term |-> req.query, page |-> req.page,
             payload |-> <<>>, total |-> <<>>,
             oldLen |-> Len(moviesState.movies), alone |-> Len(inflight) = 1,
             threw |-> outcome.type = "rejected" /\ req.origin = "searchMovies"]
       /\ UNCHANGED <<renderVars, searchQuery, searchError, recentSearches, lsRecent>>

CompleteDetails == completeDetails(EntryDetailAnswers)

\* React renders the component again after the store changed.
Render ==
  /\ ~Rendered
  /\ rQuery' = searchQuery
  /\ rLoading' = moviesState.loading
  /\ rCurrentPage' = moviesState.currentPage
  /\ lastOp' = CallTag("render", "", <<>>, 0)
  /\ UNCHANGED <<storeVars, inflight, recentSearches, lsRecent>>

SessionInit ==
  /\ moviesState = initialState
  /\ searchQuery = <<>>
  /\ searchError = NoError
  /\ inflight = <<>>
  /\ rQuery = <<>>
  /\ rLoading = FALSE
  /\ rCurrentPage = 1
  /\ lastOp = NoTag


(***************************************************************************)
(* Home page (components/pages/Home): input, debounce, auto-search         *)
(***************************************************************************)
VARIABLES
  searchInput,            \* useState searchInput
  debouncedSearch,        \* useState debouncedSearch
  timerArmed,             \* a debounce setTimeout is pending
  showCommonWordWarning,  \* useState showCommonWordWarning
  homeSearched            \* history: which of Home's paths have called
                          \* searchMovies since searchInput last changed

homeVars ==
  <<searchInput, debouncedSearch, timerArmed, showCommonWordWarning, homeSearched>>

NoneSearched == [auto |-> FALSE, manual |-> FALSE]

MIN_SEARCH_LENGTH == 3

CommonWords ==
  {<<"t", "h", "e">>, <<"a", "n", "d">>, <<"o", "r">>, <<"b", "u", "t">>, <<"i", "n">>,
   <<"o", "n">>, <<"a", "t">>, <<"t", "o">>, <<"f", "o", "r">>, <<"o", "f">>,
   <<"w", "i", "t", "h">>, <<"b", "y">>, <<"m", "o", "v", "i", "e">>,
   <<"f", "i", "l", "m">>, <<"c", "i", "n", "e", "m", "a">>}

\* onChange of the input: setSearchInput, and the [searchInput] effect clears
\* the pending timer and sets a new one.
HomeType ==
  \E text \in EntryInputs :
    /\ Rendered
    /\ text # searchInput
    /\ searchInput' = text
    /\ showCommonWordWarning' = FALSE
    /\ timerArmed' = TRUE
    /\ homeSearched' = NoneSearched
    /\ lastOp' = CallTag("homeType", "home", text, 0)
    /\ UNCHANGED <<debouncedSearch, storeVars, inflight, renderVars, recentSearches,
                   lsRecent>>

\* The debounce timer fires: setDebouncedSearch(searchInput); when the value
\* changed the auto-search effect runs.
HomeTimerFires ==
  /\ Rendered
  /\ Room(MaxEntryInflight)
  /\ timerArmed
  /\ timerArmed' = FALSE
  /\ debouncedSearch' = searchInput
  /\ UNCHANGED <<searchInput, showCommonWordWarning>>
  /\ IF searchInput = debouncedSearch
     THEN /\ lastOp' = CallTag("homeTimer", "home", searchInput, 0)
          /\ UNCHANGED <<storeVars, inflight, renderVars, recentSearches, lsRecent,
                         homeSearched>>
     ELSE IF Len(searchInput) >= MIN_SEARCH_LENGTH
          THEN /\ searchMovies("homeAuto", searchInput, 1)
               /\ homeSearched' =
                    [homeSearched EXCEPT !.auto = @ \/ Trim(searchInput) # <<>>]
          ELSE IF Len(searchInput) = 0
               THEN /\ lastOp' = CallTag("clearSearch", "homeAuto", <<>>, 0)
                    /\ clearSearch
                    /\ UNCHANGED homeSearched
               ELSE /\ lastOp' = CallTag("homeTimer", "home", searchInput, 0)
                    /\ UNCHANGED <<storeVars, inflight, renderVars, recentSearches,
                                   lsRecent, homeSearched>>

\* Home.handleSearch(searchQuery) reaches its call of searchMovies
handleSearchCalls(text) ==
  /\ Len(Trim(text)) >= MIN_SEARCH_LENGTH
  /\ ToLowerCase(Trim(text)) \notin CommonWords

\* Home.handleSearch(searchQuery)
handleSearch(text) ==
  LET trimmedQuery == Trim(text)
      isTooCommon ==
        ToLowerCase(trimmedQuery) \in CommonWords \/ Len(trimmedQuery) < 3
  IN IF Len(trimmedQuery) >= MIN_SEARCH_LENGTH
     THEN IF isTooCommon
          THEN /\ showCommonWordWarning' = TRUE
               /\ lastOp' = CallTag("handleSearch", "homeEnter", text, 1)
               /\ UNCHANGED <<storeVars, inflight, renderVars, recentSearches, lsRecent>>
          ELSE /\ showCommonWordWarning' = FALSE
               /\ searchMovies("homeEnter", trimmedQuery, 1)
     ELSE /\ lastOp' = CallTag("handleSearch", "homeEnter", text, 1)
          /\ UNCHANGED <<showCommonWordWarning, storeVars, inflight, renderVars,
                         recentSearches, lsRecent>>

\* Enter in the input (the button is the same call, enabled for fewer texts)
HomeEnter ==
  /\ Rendered
  /\ Room(MaxEntryInflight)
  /\ handleSearch(searchInput)
  /\ homeSearched' = [homeSearched EXCEPT !.manual = @ \/ handleSearchCalls(searchInput)]
  /\ UNCHANGED <<searchInput, debouncedSearch, timerArmed>>

\* A chip of the recent searches, shown while the rendered query is empty
HomeRecentSearchClick ==
  \E i \in 1..Len(recentSearches) :
    /\ Rendered
    /\ Room(MaxEntryInflight)
    /\ rQuery = <<>>
    /\ searchInput' = recentSearches[i]
    /\ timerArmed' = (timerArmed \/ recentSearches[i] # searchInput)
    /\ handleSearch(recentSearches[i])
    /\ homeSearched' =
         [auto |-> recentSearches[i] = searchInput /\ homeSearched.auto,
          manual |-> \/ recentSearches[i] = searchInput /\ homeSearched.manual
                     \/ handleSearchCalls(recentSearches[i])]
    /\ UNCHANGED debouncedSearch

\* The clear button, shown while the rendered query is not empty
HomeClear ==
  /\ Rendered
  /\ rQuery # <<>>
  /\ searchInput' = <<>>
  /\ timerArmed' = (timerArmed \/ searchInput # <<>>)
  /\ homeSearched' = IF searchInput # <<>> THEN NoneSearched ELSE homeSearched
  /\ lastOp' = CallTag("clearSearch", "homeClear", <<>>, 0)
  /\ clearSearch
  /\ UNCHANGED <<debouncedSearch, showCommonWordWarning>>

\* Home after its first render: the debounce timer of the mount is pending.
HomeInit ==
  /\ searchInput = <<>>
  /\ debouncedSearch = <<>>
  /\ timerArmed = TRUE
  /\ showCommonWordWarning = FALSE
  /\ homeSearched = NoneSearched

EntrySearchMovies ==
  Room(MaxEntryInflight) /\ \E text \in EntryInputs : searchMovies("hook", text, 1)

SearchBarSubmit == Room(MaxEntryInflight) /\ \E text \in EntryInputs : handleSubmit(text)

EntryLoadMoreMovies == Room(MaxEntryInflight) /\ rCurrentPage < MaxPage /\ loadMoreMovies

EntryCompleteSearch == completeSearch(EntrySearchAnswers)


(***************************************************************************)
(* Charts page (components/pages/Charts): statistics over the favorites    *)
(***************************************************************************)
VARIABLES
  chartFavorites,  \* the favorites value of the Charts page's last render
  yearStats,       \* useMemo yearStats of that render
  typeStats        \* useMemo typeStats of that render

chartVars == <<chartFavorites, yearStats, typeStats>>

\* The Year strings of the catalog: single years, and the span of a series
\* (the provider writes it with a dash).
YearOf ==
  <<"2001", "2002", "2003", "2004", "2005", "2006", "2007", "2008", "2009",
    "2010", "2011", "2012", "2013">>
YearSpan == "2011-2015"

\* The characters of a Year string
YearChars(year) ==
  IF year = YearSpan THEN <<"2", "0", "1", "1", "-", "2", "0", "1", "5">>
  ELSE LET i == CHOOSE k \in 1..Len(YearOf) : YearOf[k] = year
           d == <<"0", "1", "2", "3", "4", "5", "6", "7", "8", "9">>
       IN <<"2", "0", d[(((2000 + i) \div 10) % 10) + 1], d[((2000 + i) % 10) + 1]>>

\* The keys of the object built by forEach, in the order they were created
RECURSIVE KeysOf(_)
KeysOf(values) ==
  IF values = <<>> THEN <<>>
  ELSE LET rest == KeysOf(SubSeq(values, 1, Len(values) - 1))
           last == values[Len(values)]
       IN IF \E i \in 1..Len(rest) : rest[i] = last THEN rest ELSE Append(rest, last)

CountOf(values, key) == Cardinality({i \in 1..Len(values) : values[i] = key})

\* A key that is an array index (canonical decimal numeral)
IsIndexKey(chars) ==
  /\ chars # <<>>
  /\ \A i \in 1..Len(chars) : chars[i] \in Digits
  /\ (Len(chars) > 1 => chars[1] # "0")

\* items ordered by rank descending, equal ranks in their present order
\* (Array.prototype.sort is stable); ranks[i] is the rank of items[i]
InsertDescending(sorted, pair) ==
  LET k == Cardinality({j \in 1..Len(sorted) : sorted[j][1] >= pair[1]})
  IN SubSeq(sorted, 1, k) \o <<pair>> \o SubSeq(sorted, k + 1, Len(sorted))

RECURSIVE SortPairs(_)
SortPairs(pairs) ==
  IF pairs = <<>> THEN <<>>
  ELSE InsertDescending(SortPairs(SubSeq(pairs, 1, Len(pairs) - 1)), pairs[Len(pairs)])

RECURSIVE Seconds(_)
Seconds(pairs) ==
  IF pairs = <<>> THEN <<>> ELSE <<Head(pairs)[2]>> \o Seconds(Tail(pairs))

SortDescending(items, ranks) ==
  Seconds(SortPairs([i \in 1..Len(items) |-> <<ranks[i], items[i]>>]))

\* Object.entries(years): index keys first in ascending numeric order, then
\* the other keys in creation order
YearEntries(favorites) ==
  LET values == [i \in 1..Len(favorites) |-> favorites[i].Year]
      keys == KeysOf(values)
      IsIndex(k) == IsIndexKey(YearChars(k))
      NotIndex(k) == ~IsIndexKey(YearChars(k))
      indexKeys == SelectSeq(keys, IsIndex)
      ascending ==
        SortDescending(indexKeys,
                       [i \in 1..Len(indexKeys) |-> 0 - ParseInt(YearChars(indexKeys[i])).value])
      ordered == ascending \o SelectSeq(keys, NotIndex)
  IN [i \in 1..Len(ordered) |-> <<ordered[i], CountOf(values, ordered[i])>>]

TOP_YEARS == 10

\* Charts yearStats without the slice
yearStatsOf_noslice(favorites) ==
  LET entries == YearEntries(favorites)
  IN SortDescending(entries,
                    [i \in 1..Len(entries) |-> ParseInt(YearChars(entries[i][1])).value])

\* Charts yearStats
yearStatsOf(favorites) ==
  LET entries == YearEntries(favorites)
      sorted ==
        SortDescending(entries,
                       [i \in 1..Len(entries) |-> ParseInt(YearChars(entries[i][1])).value])
  IN SubSeq(sorted, 1, IF Len(sorted) > TOP_YEARS THEN TOP_YEARS ELSE Len(sorted))

\* Object.entries(types): the Type strings are no index keys
TypeEntries(favorites) ==
  LET values == [i \in 1..Len(favorites) |-> favorites[i].Type]
      keys == KeysOf(values)
  IN [i \in 1..Len(keys) |-> <<keys[i], CountOf(values, keys[i])>>]

\* Charts typeStats left in the order of Object.entries
typeStatsOf_nosort(favorites) == TypeEntries(favorites)

\* Charts typeStats
typeStatsOf(favorites) ==
  LET entries == TypeEntries(favorites)
  IN SortDescending(entries, [i \in 1..Len(entries) |-> entries[i][2]])

\* The block "most popular year", rendered while favorites.length > 0:
\* yearStats[0]?.[0] and yearStats[0]?.[1]
popularYear(stats) == stats[1]

\* The Charts page renders with the favorites of the store.
ChartsRender ==
  /\ chartFavorites' = favItems
  /\ yearStats' = yearStatsOf(favItems)
  /\ typeStats' = typeStatsOf(favItems)

ChartsInit ==
  /\ chartFavorites = <<>>
  /\ yearStats = <<>>
  /\ typeStats = <<>>

\* The favorites the Charts specification starts from: none, one, or about
\* MaxChartYears items of distinct years in no particular order, followed by
\* up to two items of years that may repeat; and the list of years 2012,
\* 2012, 2011.
MaxChartYears == 11
ChartTypes == <<"movie", "series", "episode">>
ChartBase(n) ==
  [i \in 1..n |-> Mv(IdOf[i], YearOf[((i * 5) % Len(YearOf)) + 1], ChartTypes[(i % 3) + 1],
                 NoPlot)]
ChartExtraItems ==
  {<<YearOf[12], "movie">>, <<YearOf[12], "game">>, <<YearSpan, "game">>,
   <<YearOf[1], "series">>}
ChartExtras == UNION {[1..k -> ChartExtraItems] : k \in {0, 1, 2}}
ChartExample ==
  <<Mv(IdOf[1], "2012", "movie", NoPlot), Mv(IdOf[2], "2012", "movie", NoPlot),
    Mv(IdOf[3], "2011", "movie", NoPlot)>>
ChartLists ==
  {ChartExample}
  \cup {ChartBase(n)
          \o [i \in 1..Len(x) |-> Mv(IdOf[n + i], x[i][1], x[i][2], NoPlot)] :
        n \in {0, 1, MaxChartYears - 1, MaxChartYears}, x \in ChartExtras}

(***************************************************************************)
(* The thunk searchMoviesAsync applied to one answer of the catalog        *)
(***************************************************************************)
VARIABLES
  thunkCall,    \* the argument of one searchMoviesAsync call and the answer
                \* the catalog gives it: [answer, query, page]
  thunkResult   \* the action the call ended with, once it has ended

thunkVars == <<thunkCall, thunkResult>>

NoResult == Outcome("none", <<>>, 0, <<>>, 0, Undefined, "")

\* The call runs to its end.
RunSearchThunk ==
  /\ thunkResult = NoResult
  /\ thunkResult' = searchMoviesAsync(thunkCall.answer, thunkCall.query, thunkCall.page)
  /\ UNCHANGED thunkCall

\* No call of the thunk is followed on its own.
ThunkIdle ==
  /\ thunkCall = [answer |-> Answer("network", "", "", <<>>, <<>>, Undefined),
                  query |-> <<>>, page |-> 1]
  /\ thunkResult = NoResult

ThunkInit ==
  /\ thunkCall \in [answer : SearchFailures \cup SearchSuccesses,
                    query : {Term(1), <<"u", "p", " ">>},
                    page : 1..MaxPage]
  /\ thunkResult = NoResult

(***************************************************************************)
(* Favorites page (components/pages/Favorites): removal behind a dialog    *)
(***************************************************************************)
VARIABLES
  confirmState  \* the ConfirmDialog of the page: [state, kind, id], state is
                \* "none", "open", "accepted" or "rejected"

pageVars == <<confirmState>>

Confirm(state, kind, id) == [state |-> state, kind |-> kind, id |-> id]
NoConfirm == Confirm("none", "", "")

RECURSIVE DistinctLists(_)
DistinctLists(n) ==
  IF n = 0 THEN {<<>>}
  ELSE LET shorter == DistinctLists(n - 1)
       IN shorter \cup {Append(l, m) : l \in {x \in shorter : Len(x) = n - 1},
                                        m \in FavMovies}

\* The favorites redux-persist restored when the page opens: every list of
\* items with distinct ids.
FavPageLists == {l \in DistinctLists(MaxFavId) : NoDuplicateIds(l)}

\* handleRemoveFavorite without the dialog
HandleRemoveFavorite_noconfirm ==
  \E i \in 1..Len(favItems) :
    /\ confirmState.state # "open"
    /\ confirmState' = Confirm("accepted", "remove", favItems[i].imdbID)
    /\ FavStep("removeFromFavorites", NoMovie, favItems[i].imdbID,
               removeFromFavorites(favItems, favItems[i].imdbID))

\* Favorites.handleRemoveFavorite(movie.imdbID, movie.Title): the heart
\* button of a card opens the dialog (which is modal)
HandleRemoveFavorite ==
  \E i \in 1..Len(favItems) :
    /\ confirmState.state # "open"
    /\ confirmState' = Confirm("open", "remove", favItems[i].imdbID)
    /\ UNCHANGED favVars

\* Favorites.handleClearAll: the button is rendered while the list is not empty
HandleClearAll ==
  /\ favItems # <<>>
  /\ confirmState.state # "open"
  /\ confirmState' = Confirm("open", "clear", "")
  /\ UNCHANGED favVars

\* The dialog's accept callback: removeFavorite(movieId) or clearAllFavorites()
ConfirmAccept ==
  /\ confirmState.state = "open"
  /\ confirmState' = [confirmState EXCEPT !.state = "accepted"]
  /\ IF confirmState.kind = "remove"
     THEN FavStep("removeFromFavorites", NoMovie, confirmState.id,
                  removeFromFavorites(favItems, confirmState.id))
     ELSE ClearFavorites

\* The dialog is rejected or closed: no callback was given for that
ConfirmReject ==
  /\ confirmState.state = "open"
  /\ confirmState' = [confirmState EXCEPT !.state = "rejected"]
  /\ UNCHANGED favVars

PageIdle == confirmState = NoConfirm

(***************************************************************************)
(* Overlapping requests: what became of each request in flight             *)
(***************************************************************************)
VARIABLES
  raceLog,   \* history, parallel to inflight: per request [overtaken, cleared,
             \*   overlapped, pageBefore]
  raceLast,  \* history: the raceLog entry of the request answered last
  paging     \* history: [active, loaded], the ids loaded since a page-1 search
             \*   that was followed by nothing but load-more calls, one at a
             \*   time and each while hasMorePages, answered by the catalog

raceVars == <<raceLog, raceLast, paging>>

MaxRaceInflight == 2

Flight(overlapped, pageBefore) ==
  [overtaken |-> FALSE, cleared |-> FALSE, overlapped |-> overlapped,
   pageBefore |-> pageBefore]
NoFlight == Flight(FALSE, 0)
NoPaging == [active |-> FALSE, loaded |-> {}]

\* The catalog of the overlap specification: the pages it serves for each
\* term.  Term(1) has two entries on two pages; Term(2) has two entries of
\* which the second repeats the imdbID of the first.
RaceInputs == {Term(1), Term(2)}
RaceCatalog(q) ==
  IF q = Term(1)
  THEN <<(<<Mv(IdOf[1], "2012", "movie", NoPlot)>>), (<<Mv(IdOf[2], "2012", "movie", NoPlot)>>)>>
  ELSE <<(<<Mv(IdOf[3], "2012", "movie", NoPlot)>>), (<<Mv(IdOf[3], "2013", "movie", NoPlot)>>)>>
RaceTotal == <<"2">>

RaceAnswers ==
  {Answer("json", "True", "", RaceCatalog(q)[p], RaceTotal, Undefined) :
     q \in RaceInputs, p \in 1..2}
  \cup {a \in SearchFailures : a.kind = "network" \/ a.Error = "Movie not found!"}

\* The answer applied in this step is one the catalog gives to the request:
\* the page asked for, a not-found failure past the last page, or a network
\* failure.
RaceAnswerFits ==
  LET pages == RaceCatalog(lastOp'.term) IN
  IF lastOp'.kind = "searchFulfilled"
  THEN /\ lastOp'.page <= Len(pages)
       /\ lastOp'.payload = pages[lastOp'.page]
  ELSE \/ moviesState'.error = MsgNetwork
       \/ lastOp'.page > Len(pages)

\* useMovieSearch: hasMorePages
hasMorePages(state) ==
  Len(state.movies) > 0 /\ Len(state.movies) < state.totalResults

\* A handler has run: when it issued a request, the requests already in
\* flight overlap with it.
RaceDispatched ==
  raceLog' =
    IF Len(inflight') > Len(inflight)
    THEN Append([j \in 1..Len(raceLog) |-> [raceLog[j] EXCEPT !.overlapped = TRUE]],
                Flight(inflight # <<>>, moviesState.currentPage))
    ELSE raceLog

RaceSearch ==
  /\ Room(MaxRaceInflight)
  /\ \E text \in RaceInputs : searchMovies("hook", text, 1)
  /\ RaceDispatched
  /\ paging' = NoPaging
  /\ UNCHANGED raceLast

RaceLoadMore ==
  /\ Room(MaxRaceInflight)
  /\ rCurrentPage < MaxPage
  /\ loadMoreMovies
  /\ RaceDispatched
  /\ paging' =
       IF Len(inflight') > Len(inflight) /\ (inflight # <<>> \/ ~hasMorePages(moviesState))
       THEN NoPaging ELSE paging
  /\ UNCHANGED raceLast

RaceClear ==
  /\ ClearSearch
  /\ raceLog' = [j \in 1..Len(raceLog) |-> [raceLog[j] EXCEPT !.cleared = TRUE]]
  /\ paging' = NoPaging
  /\ UNCHANGED raceLast

RaceComplete ==
  /\ completeSearch(RaceAnswers)
  /\ RaceAnswerFits
  /\ \E i \in 1..Len(inflight) :
       /\ inflight' = RemoveAt(inflight, i)
       /\ raceLast' = raceLog[i]
       /\ raceLog' =
            RemoveAt([j \in 1..Len(raceLog) |->
                        IF j < i THEN [raceLog[j] EXCEPT !.overtaken = TRUE]
                        ELSE raceLog[j]], i)
       /\ paging' =
            IF raceLog[i].overlapped \/ raceLog[i].cleared THEN NoPaging
            ELSE IF lastOp'.kind = "searchRejected"
                    /\ lastOp'.page <= Len(RaceCatalog(lastOp'.term))
                 THEN NoPaging
            ELSE IF lastOp'.kind = "searchFulfilled" /\ lastOp'.entry = "searchMovies"
                 THEN [active |-> TRUE, loaded |-> SeqIds(lastOp'.payload)]
                 ELSE IF lastOp'.kind = "searchFulfilled" /\ paging.active
                      THEN [paging EXCEPT !.loaded = @ \cup SeqIds(lastOp'.payload)]
                      ELSE paging

RaceIdle ==
  /\ raceLog = <<>>
  /\ raceLast = NoFlight
  /\ paging = NoPaging

vars == <<favVars, recVars, sessionVars, homeVars, chartVars, thunkVars, raceVars, pageVars>>

\* The recent-searches list after a start-up with nothing stored.
RecentIdle ==
  /\ lsRecent = LsAbsent
  /\ recentSearches = <<>>
  /\ storageOk = TRUE
  /\ recLast = RecOp("init", <<>>)
  /\ recBefore = <<>>
  /\ recOps = 0

\* The favorites slice alone.
FavFrame == UNCHANGED <<recVars, sessionVars, homeVars, chartVars, thunkVars, raceVars, pageVars>>

FavStart ==
  FavInit /\ RecentIdle /\ SessionInit /\ HomeInit /\ ChartsInit /\ ThunkIdle /\ RaceIdle /\ PageIdle

FavNext ==
  \/ AddToFavorites /\ FavFrame
  \/ RemoveFromFavorites /\ FavFrame
  \/ ToggleFavorite /\ FavFrame
  \/ ClearFavorites /\ FavFrame
  \/ HandleToggleFavorite /\ FavFrame

SpecFav == FavStart /\ [][FavNext]_vars

\* The recent searches of the search slice alone.
RecentFrame == UNCHANGED <<favVars, sessionVars, homeVars, chartVars, thunkVars, raceVars, pageVars>>

RecentStart ==
  RecentInit /\ FavInit /\ SessionInit /\ HomeInit /\ ChartsInit /\ ThunkIdle /\ RaceIdle /\ PageIdle

RecentNext ==
  \/ AddRecentSearch /\ RecentFrame
  \/ RemoveRecentSearch /\ RecentFrame
  \/ ClearRecentSearches /\ RecentFrame
  \/ StorageChanges /\ RecentFrame

SpecRecent == RecentStart /\ [][RecentNext]_vars

\* The favorites redux-persist restored at start-up: none, or one saved item.
FavRehydrated ==
  /\ favItems \in {<<>>, <<Mv(IdOf[1], "2012", "movie", FullPlot)>>}
  /\ favLast = FavOp("init", NoMovie, "")
  /\ favBefore = favItems
  /\ favPair = NoPair

\* The search session driven through useMovieSearch: searches of one term,
\* load-more, clear, and every answer of the catalog.
SessionFrame ==
  UNCHANGED <<favVars, storageOk, recLast, recBefore, recOps, chartVars, thunkVars, raceVars, pageVars>>

Init ==
  SessionInit /\ RecentIdle /\ FavRehydrated /\ HomeInit /\ ChartsInit /\ ThunkIdle /\ RaceIdle /\ PageIdle

Next ==
  \/ SearchMovies /\ SessionFrame /\ UNCHANGED homeVars
  \/ LoadMoreMovies /\ SessionFrame /\ UNCHANGED homeVars
  \/ ClearSearch /\ SessionFrame /\ UNCHANGED homeVars
  \/ CompleteSearch /\ SessionFrame /\ UNCHANGED homeVars
  \/ Render /\ SessionFrame /\ UNCHANGED homeVars

Spec == Init /\ [][Next]_vars

\* The components that start a search: the hook's callers, the Home page,
\* the SearchBar form and the details page.
EntryNext ==
  \/ EntrySearchMovies /\ SessionFrame /\ UNCHANGED homeVars
  \/ SearchBarSubmit /\ SessionFrame /\ UNCHANGED homeVars
  \/ DetailsPageLoad /\ SessionFrame /\ UNCHANGED homeVars
  \/ EntryLoadMoreMovies /\ SessionFrame /\ UNCHANGED homeVars
  \/ ClearSearch /\ SessionFrame /\ UNCHANGED homeVars
  \/ EntryCompleteSearch /\ SessionFrame /\ UNCHANGED homeVars
  \/ CompleteDetails /\ SessionFrame /\ UNCHANGED homeVars
  \/ Render /\ SessionFrame /\ UNCHANGED homeVars
  \/ HomeType /\ SessionFrame
  \/ HomeTimerFires /\ SessionFrame
  \/ HomeEnter /\ SessionFrame
  \/ HomeRecentSearchClick /\ SessionFrame
  \/ HomeClear /\ SessionFrame

SpecEntry == Init /\ [][EntryNext]_vars

\* The Charts page over favorites restored at start-up, which the user may
\* then remove or clear.
ChartsFrame == UNCHANGED <<recVars, sessionVars, homeVars, thunkVars, raceVars, pageVars>>

ChartsStart ==
  /\ favItems \in ChartLists
  /\ favLast = FavOp("init", NoMovie, "")
  /\ favBefore = favItems
  /\ favPair = NoPair
  /\ RecentIdle /\ SessionInit /\ HomeInit /\ ChartsInit /\ ThunkIdle /\ RaceIdle /\ PageIdle

ChartsNext ==
  \/ ChartsRender /\ ChartsFrame /\ UNCHANGED favVars
  \/ RemoveFromFavorites /\ ChartsFrame /\ UNCHANGED chartVars
  \/ ClearFavorites /\ ChartsFrame /\ UNCHANGED chartVars

SpecCharts == ChartsStart /\ [][ChartsNext]_vars

\* One call of searchMoviesAsync, for every answer of the catalog.
ThunkStart ==
  FavInit /\ RecentIdle /\ SessionInit /\ HomeInit /\ ChartsInit /\ ThunkInit /\ RaceIdle /\ PageIdle

ThunkNext ==
  RunSearchThunk /\ UNCHANGED <<favVars, recVars, sessionVars, homeVars, chartVars, raceVars, pageVars>>

SpecThunk == ThunkStart /\ [][ThunkNext]_vars

\* Overlapping searches, load-more and clear over a catalog of two terms,
\* every request followed from its dispatch to its answer.
RaceFrame ==
  UNCHANGED <<favVars, storageOk, recLast, recBefore, recOps, homeVars, chartVars,
              thunkVars, pageVars>>

RaceStart ==
  SessionInit /\ RecentIdle /\ FavInit /\ HomeInit /\ ChartsInit /\ ThunkIdle /\ RaceIdle /\ PageIdle

RaceNext ==
  \/ RaceSearch /\ RaceFrame
  \/ RaceLoadMore /\ RaceFrame
  \/ RaceClear /\ RaceFrame
  \/ RaceComplete /\ RaceFrame
  \/ Render /\ RaceFrame /\ UNCHANGED raceVars

SpecRace == RaceStart /\ [][RaceNext]_vars

\* Searches that overlap with each other and with clearSearch, without
\* load-more.
OverlapNext ==
  \/ RaceSearch /\ RaceFrame
  \/ RaceClear /\ RaceFrame
  \/ RaceComplete /\ RaceFrame
  \/ Render /\ RaceFrame /\ UNCHANGED raceVars

SpecOverlap == RaceStart /\ [][OverlapNext]_vars

\* The favorites page over the favorites restored at start-up.
PageFrame ==
  UNCHANGED <<recVars, sessionVars, homeVars, chartVars, thunkVars, raceVars>>

PageStart ==
  /\ favItems \in FavPageLists
  /\ favLast = FavOp("init", NoMovie, "")
  /\ favBefore = favItems
  /\ favPair = NoPair
  /\ RecentIdle /\ SessionInit /\ HomeInit /\ ChartsInit /\ ThunkIdle /\ RaceIdle
  /\ PageIdle

PageNext ==
  \/ HandleRemoveFavorite /\ PageFrame
  \/ HandleClearAll /\ PageFrame
  \/ ConfirmAccept /\ PageFrame
  \/ ConfirmReject /\ PageFrame

SpecPage == PageStart /\ [][PageNext]_vars

\* C1: starting from an empty list, after any sequence of addToFavorites,
\* removeFromFavorites, toggleFavorite and clearFavorites the Favorites list
\* never holds two items with the same imdbID.
C1_FavoritesUniqueIds == NoDuplicateIds(favItems)

\* C1 witness: a second add of an id already present (other content) has
\* just been dispatched against a list of two entries.
C1_Witness ==
  /\ favLast.kind = "addToFavorites"
  /\ Len(favBefore) = 2
  /\ favLast.id \in SeqIds(favBefore)
  /\ \A i \in 1..Len(favBefore) : favBefore[i] # favLast.movie

\* C2: toggleFavorite(item) applied twice in succession leaves the membership
\* of item.imdbID, and of every other id, as it was before the first toggle.
C2_ToggleTwiceRestoresMembership ==
  favPair.active => SeqIds(favItems) = SeqIds(favPair.items)

\* C2 witness: the item toggled twice was present, and not the first entry.
C2_Witness ==
  /\ favPair.active
  /\ Len(favPair.items) >= 2
  /\ favLast.id \in SeqIds(favPair.items)
  /\ favPair.items[1].imdbID # favLast.id

Occurrences(searches, query) ==
  Cardinality({i \in 1..Len(searches) : searches[i] = query})

\* C5: after addRecentSearch the list has at most 10 entries; and when the
\* normalized term was already in the list it is afterwards at index 0,
\* occurs exactly once, and the list is not longer than before.
C5_RecordBoundedMoveToFront ==
  /\ Len(recentSearches) <= 10
  /\ (/\ recLast.kind = "addRecentSearch"
      /\ Occurrences(recBefore, ToLowerCase(Trim(recLast.term))) > 0)
     => /\ recentSearches # <<>>
        /\ recentSearches[1] = ToLowerCase(Trim(recLast.term))
        /\ Occurrences(recentSearches, ToLowerCase(Trim(recLast.term))) = 1
        /\ Len(recentSearches) <= Len(recBefore)

\* C5 witness: a padded upper-case spelling of a term that sat at the end
\* of a full list has been recorded again.
C5_Witness ==
  /\ recLast.kind = "addRecentSearch"
  /\ recLast.term # ToLowerCase(Trim(recLast.term))
  /\ Len(recBefore) = 10
  /\ recBefore[10] = ToLowerCase(Trim(recLast.term))
  /\ Len(recentSearches) = 10

(***************************************************************************)
(* The search session                                                      *)
(***************************************************************************)
RECURSIVE NotYetListed(_, _)
NotYetListed(returned, old) ==
  IF returned = <<>> THEN <<>>
  ELSE IF \E i \in 1..Len(old) : old[i].imdbID = Head(returned).imdbID
       THEN NotYetListed(Tail(returned), old)
       ELSE <<Head(returned)>> \o NotYetListed(Tail(returned), old)

\* C3: a fulfilled response for page 1 makes the result list exactly the
\* returned items; a fulfilled response for a page > 1 makes it the old list
\* followed by the returned items whose imdbID the old list did not hold, in
\* the order returned, the old items neither removed nor reordered.
C3_FulfilledReplacesOrAppends ==
  [][lastOp'.kind = "searchFulfilled"
     => IF lastOp'.page = 1
        THEN moviesState'.movies = lastOp'.payload
        ELSE /\ Len(moviesState'.movies) >= Len(moviesState.movies)
             /\ SubSeq(moviesState'.movies, 1, Len(moviesState.movies))
                  = moviesState.movies
             /\ SubSeq(moviesState'.movies, Len(moviesState.movies) + 1,
                       Len(moviesState'.movies))
                  = NotYetListed(lastOp'.payload, moviesState.movies)]_vars

\* C3 witness: a load-more page of two items, one already listed and one
\* new, has been merged into a list of one item.
C3_Witness ==
  /\ lastOp.kind = "searchFulfilled"
  /\ lastOp.page > 1
  /\ lastOp.oldLen = 1
  /\ Len(lastOp.payload) = 2
  /\ lastOp.payload[1].imdbID # lastOp.payload[2].imdbID
  /\ Len(moviesState.movies) = 2

\* C4: in every reachable state of the search session the result list holds
\* no two entries with the same imdbID, whatever the catalog answers.
C4_ResultListUniqueIds == NoDuplicateIds(moviesState.movies)

\* C6: a call of an entry point of the search (useMovieSearch.searchMovies
\* from a caller or from Home's auto-search, Enter or recent chip, and the
\* SearchBar form) with a term shorter than 3 characters after trimming
\* issues no request and leaves the search session state unchanged.
C6_ShortTermRejected ==
  [][(/\ lastOp'.kind \in {"searchMovies", "handleSubmit", "handleSearch"}
      /\ Len(Trim(lastOp'.term)) < MIN_SEARCH_LENGTH)
     => UNCHANGED <<moviesState, inflight>>]_vars

RECURSIVE DecimalValue(_)
DecimalValue(text) ==
  IF text = <<>> THEN 0
  ELSE 10 * DecimalValue(SubSeq(text, 1, Len(text) - 1))
       + (CHOOSE d \in 0..9 :
            <<"0", "1", "2", "3", "4", "5", "6", "7", "8", "9">>[d + 1] = text[Len(text)])

IsDecimal(text) == text # <<>> /\ \A i \in 1..Len(text) : text[i] \in Digits

\* C7: when a search request with no other request in flight is fulfilled
\* with items L and catalog total N, then list = L (for page 1),
\* totalResults = N, loading = false and error = null.
C7_SingleSearchFulfilled ==
  (lastOp.kind = "searchFulfilled" /\ lastOp.alone /\ IsDecimal(lastOp.total))
  => /\ lastOp.page = 1 => moviesState.movies = lastOp.payload
     /\ moviesState.totalResults = DecimalValue(lastOp.total)
     /\ moviesState.loading = FALSE
     /\ moviesState.error = NoError

\* C7 witness: a lone page-1 request was fulfilled with two items and the
\* total "12" over a list that held something else.
C7_Witness ==
  /\ lastOp.kind = "searchFulfilled"
  /\ lastOp.alone
  /\ lastOp.page = 1
  /\ lastOp.total = <<"1", "2">>
  /\ Len(lastOp.payload) = 2
  /\ lastOp.oldLen = 1
  /\ moviesState.totalResults = 12

\* C8: a failed search (page 1 or load-more) or a failed fetch by identifier
\* leaves the result list empty, the total 0, loading false and the error
\* non-null; and a non-null error becomes null only by a step that starts a
\* search or clears.
C8_FailureClearsSession ==
  [][/\ lastOp'.kind \in {"searchRejected", "detailsRejected"}
        => /\ moviesState'.movies = <<>>
           /\ moviesState'.totalResults = 0
           /\ moviesState'.loading = FALSE
           /\ moviesState'.error # NoError
     /\ (moviesState.error # NoError /\ moviesState'.error = NoError)
        => lastOp'.kind \in {"searchMovies", "loadMoreMovies", "handleSubmit",
                             "detailsPage", "clearSearch"}]_vars

\* C9: loadMore() changes nothing and issues no request when the store has
\* no query or is loading; and however often it is invoked before a response
\* arrives, at most one load-more request is in flight and a call moves the
\* cursor by at most one page.
C9_LoadMoreIdempotent ==
  [][lastOp'.kind = "loadMoreMovies"
     => /\ (searchQuery = <<>> \/ moviesState.loading)
           => UNCHANGED <<storeVars, inflight>>
        /\ Cardinality({i \in 1..Len(inflight') : inflight'[i].origin = "loadMore"}) <= 1
        /\ moviesState'.currentPage <= moviesState.currentPage + 1]_vars

\* C10: clearSearch() leaves the result list empty, the error null, the
\* query text empty in the movies slice and in the search slice, the total 0
\* and the page cursor 1, and leaves the recent searches and the favorites
\* as they were.
C10_ClearSearchResetsSession ==
  [][lastOp'.kind = "clearSearch"
     => /\ moviesState'.movies = <<>>
        /\ moviesState'.error = NoError
        /\ moviesState'.query = <<>>
        /\ searchQuery' = <<>>
        /\ moviesState'.totalResults = 0
        /\ moviesState'.currentPage = 1
        /\ UNCHANGED <<recentSearches, lsRecent, favItems>>]_vars

\* C10 witness: clearSearch ran on a populated list with a load-more
\* request pending, while recent searches and favorites were not empty.
C10_Witness ==
  /\ lastOp.kind = "clearSearch"
  /\ lastOp.oldLen > 0
  /\ recentSearches # <<>>
  /\ favItems # <<>>
  /\ moviesState.currentPage = 1
  /\ \E i \in 1..Len(inflight) : inflight[i].page > 1

\* C11: a searchMovies call whose trimmed text has the identifier format
\* issues a fetch by identifier, not a search by term; and when that fetch
\* succeeds the result list is the one-element list of the returned item and
\* the total is 1.
C11_IdentifierSearchFillsList ==
  [][/\ (/\ lastOp'.kind = "searchMovies"
         /\ IsImdbId(Trim(lastOp'.term))
         /\ inflight' # inflight)
        => inflight'[Len(inflight')].thunk = "details"
     /\ (lastOp'.kind = "detailsFulfilled" /\ lastOp'.entry = "searchMovies")
        => /\ moviesState'.movies = <<moviesState'.currentMovie>>
           /\ moviesState'.totalResults = 1]_vars

\* C12: the recent searches change only in the step in which a search by
\* term is fulfilled: a call of searchMovies by itself, a failed search and a
\* fetch by identifier add nothing to them.
C12_RecordOnlyAfterSuccess ==
  [][recentSearches' # recentSearches
     => /\ lastOp'.kind = "searchFulfilled"
        /\ recentSearches' = addRecentSearch(recentSearches, lastOp'.term)]_vars

\* C13: in every reachable state loading is true exactly when at least one
\* search or detail request has been dispatched and has not completed.
C13_LoadingWhileInFlight == moviesState.loading = (inflight # <<>>)

\* C14: addToFavorites(item) appends item at the end when no entry has its
\* imdbID and otherwise leaves the list unchanged; removeFromFavorites(id)
\* removes the entry with that id when present and otherwise leaves the list
\* unchanged; the other entries keep their relative order.
C14_AddAppendsRemoveDeletes ==
  /\ favLast.kind = "addToFavorites"
     => IF \E i \in 1..Len(favBefore) : favBefore[i].imdbID = favLast.id
        THEN favItems = favBefore
        ELSE favItems = favBefore \o <<favLast.movie>>
  /\ favLast.kind = "removeFromFavorites"
     => IF \E i \in 1..Len(favBefore) : favBefore[i].imdbID = favLast.id
        THEN \E i \in 1..Len(favBefore) :
               /\ favBefore[i].imdbID = favLast.id
               /\ favItems = SubSeq(favBefore, 1, i - 1)
                               \o SubSeq(favBefore, i + 1, Len(favBefore))
        ELSE favItems = favBefore

\* C14 witness: the entry in the middle of a list of three was removed.
C14_Witness ==
  /\ favLast.kind = "removeFromFavorites"
  /\ Len(favBefore) = 3
  /\ favBefore[2].imdbID = favLast.id
  /\ Len(favItems) = 2

\* C15: a change of the Home input restarts the debounce timer; the
\* auto-search runs only for the input value the timer fired on, never for
\* an intermediate value; and for one input value Home calls searchMovies at
\* most once, the debounced auto-search and the manual Enter/button/chip
\* search counted together.
C15_OneSearchPerQuietPeriod ==
  [][/\ searchInput' # searchInput => timerArmed'
     /\ (lastOp'.kind = "searchMovies" /\ lastOp'.entry = "homeAuto")
        => (lastOp'.term = searchInput' /\ ~timerArmed')
     /\ ~(homeSearched'.auto /\ homeSearched'.manual)]_vars

(***************************************************************************)
(* The statistics of the Charts page                                       *)
(***************************************************************************)
ChartYearValues == [i \in 1..Len(chartFavorites) |-> chartFavorites[i].Year]
ChartTypeValues == [i \in 1..Len(chartFavorites) |-> chartFavorites[i].Type]
Range(values) == {values[i] : i \in 1..Len(values)}
YearNumber(year) == ParseInt(YearChars(year)).value

\* C16: yearStats holds one (year, count) pair per distinct Year of the
\* favorites, the count being the number of favorites of that year, sorted
\* by year descending and cut to the 10 most recent distinct years; it is
\* empty over no favorites, and over the years 2012, 2012, 2011 it is
\* (2012, 2), (2011, 1).
C16_CountByYear ==
  /\ \A p \in 1..Len(yearStats) :
       /\ yearStats[p][1] \in Range(ChartYearValues)
       /\ yearStats[p][2] = CountOf(ChartYearValues, yearStats[p][1])
  /\ \A p, q \in 1..Len(yearStats) :
       p < q => /\ yearStats[p][1] # yearStats[q][1]
                /\ YearNumber(yearStats[p][1]) >= YearNumber(yearStats[q][1])
  /\ Len(yearStats) =
       IF Cardinality(Range(ChartYearValues)) > 10 THEN 10
       ELSE Cardinality(Range(ChartYearValues))
  /\ \A y \in Range(ChartYearValues) :
       (\A p \in 1..Len(yearStats) : yearStats[p][1] # y)
       => \A p \in 1..Len(yearStats) : YearNumber(y) <= YearNumber(yearStats[p][1])
  /\ chartFavorites = <<>> => yearStats = <<>>
  /\ ChartYearValues = <<"2012", "2012", "2011">>
     => yearStats = <<<<"2012", 2>>, <<"2011", 1>>>>

\* C16 witness: the page rendered favorites of 12 distinct Year values, one
\* of them twice, and shows 10 pairs.
C16_Witness ==
  /\ Cardinality(Range(ChartYearValues)) = 12
  /\ Len(chartFavorites) = 13
  /\ Len(yearStats) = 10
  /\ \E p \in 1..Len(yearStats) : yearStats[p][2] = 2

RECURSIVE SumOfCounts(_)
SumOfCounts(stats) ==
  IF stats = <<>> THEN 0 ELSE Head(stats)[2] + SumOfCounts(Tail(stats))

\* C20: typeStats holds one (kind, count) pair per distinct Type of the
\* favorites, the count being the number of favorites of that type, sorted
\* by count in non-increasing order and never cut, so that the counts sum to
\* the number of favorites.
C20_CountByKind ==
  /\ \A p \in 1..Len(typeStats) :
       typeStats[p][2] = CountOf(ChartTypeValues, typeStats[p][1])
  /\ \A p, q \in 1..Len(typeStats) :
       p < q => /\ typeStats[p][1] # typeStats[q][1]
                /\ typeStats[p][2] >= typeStats[q][2]
  /\ {typeStats[p][1] : p \in 1..Len(typeStats)} = Range(ChartTypeValues)
  /\ SumOfCounts(typeStats) = Len(chartFavorites)

\* C20 witness: four kinds are shown and the kind of the first favorite is
\* not the first pair.
C20_Witness ==
  /\ Len(typeStats) = 4
  /\ typeStats[1][1] # chartFavorites[1].Type
  /\ typeStats[1][2] > typeStats[4][2]

\* C17: a failed search or load-more sets the session's error field, and the
\* promise of the searchMovies or loadMoreMovies call that issued it does
\* not reject: nothing is thrown to the caller.
C17_NoErrorEscapes ==
  /\ lastOp.kind = "searchRejected" => moviesState.error # NoError
  /\ ~lastOp.threw

\* C18: searchMoviesAsync answered with Response "False" ends rejected with
\* the narrow-your-query message when Error is "Too many results.", with the
\* not-found message when Error is "Movie not found!", and with the Error
\* string itself when it is any other non-empty string.
C18_FailureReasonsDistinguished ==
  (/\ thunkResult # NoResult
   /\ thunkCall.answer.kind = "json"
   /\ thunkCall.answer.Response = "False")
  => /\ thunkResult.type = "rejected"
     /\ thunkCall.answer.Error = "Too many results." => thunkResult.payload = MsgTooMany
     /\ thunkCall.answer.Error = "Movie not found!" => thunkResult.payload = MsgNotFound
     /\ thunkCall.answer.Error \notin {"Too many results.", "Movie not found!", ""}
        => thunkResult.payload = thunkCall.answer.Error

(***************************************************************************)
(* The recent searches                                                     *)
(***************************************************************************)
\* Every entry is trimmed, lower-cased, at least 3 characters long and
\* occurs once.
NormalizedEntries(searches) ==
  \A i \in 1..Len(searches) :
    /\ Len(searches[i]) >= 3
    /\ searches[i][1] # " "
    /\ searches[i][Len(searches[i])] # " "
    /\ \A k \in 1..Len(searches[i]) :
         searches[i][k] \notin {"A", "B", "M", "O", "P", "T", "U"}
    /\ \A j \in 1..Len(searches) : searches[j] = searches[i] => j = i

\* C19: addRecentSearch(term) with a term of fewer than 3 characters after
\* trimming and lower-casing changes neither the list nor the stored list;
\* and in every state every entry of the list is trimmed, lower-cased, at
\* least 3 characters long and occurs only once.
C19_ShortTermsNotRecorded ==
  [][/\ NormalizedEntries(recentSearches)
     /\ NormalizedEntries(recentSearches')
     /\ (/\ recOps' # recOps
         /\ recLast'.kind = "addRecentSearch"
         /\ Len(ToLowerCase(Trim(recLast'.term))) < 3)
        => UNCHANGED <<recentSearches, lsRecent>>]_vars

\* C19 witness: the term "UP " was offered to a list that held entries and
\* to a storage that accepts writes.
C19_Witness ==
  /\ recLast = RecOp("addRecentSearch", <<"U", "P", " ">>)
  /\ recBefore # <<>>
  /\ recentSearches = recBefore
  /\ storageOk

(***************************************************************************)
(* Overlapping requests                                                    *)
(***************************************************************************)
\* C21: when two searches overlap, each response is applied by itself, so
\* that after the response that resolves last the result list, the total,
\* the query and the loading flag are the ones that response wrote, also
\* when it answers the search that was issued first.
C21_LastResponseWins ==
  (raceLast.overlapped /\ lastOp.entry = "searchMovies")
  => /\ lastOp.kind = "searchFulfilled"
        => /\ moviesState.movies = lastOp.payload
           /\ moviesState.totalResults = DecimalValue(lastOp.total)
           /\ moviesState.query = lastOp.term
           /\ moviesState.loading = FALSE
     /\ lastOp.kind = "searchRejected"
        => /\ moviesState.movies = <<>>
           /\ moviesState.totalResults = 0
           /\ moviesState.loading = FALSE

\* C21 witness: the search of Term(1) was issued first, the search of
\* Term(2) after it was answered first, and the answer to Term(1) resolved
\* last: the session shows Term(1)'s list under the search text Term(2).
C21_Witness ==
  /\ lastOp.kind = "searchFulfilled"
  /\ lastOp.entry = "searchMovies"
  /\ raceLast.overtaken
  /\ inflight = <<>>
  /\ searchQuery = Term(2)
  /\ moviesState.query = Term(1)
  /\ moviesState.movies = RaceCatalog(Term(1))[1]

\* C22: the answer to a search that was in flight when clearSearch() ran is
\* applied like any other: when it is fulfilled the session holds its
\* (non-empty) items and its (non-empty) query, although the search slice's
\* query is empty since the clear.
C22_ResponseAfterClearApplied ==
  (/\ raceLast.cleared
   /\ lastOp.kind = "searchFulfilled"
   /\ lastOp.entry = "searchMovies")
  => /\ moviesState.movies = lastOp.payload
     /\ moviesState.movies # <<>>
     /\ moviesState.query = lastOp.term
     /\ moviesState.query # <<>>

\* C22 witness: search, clearSearch, then the response, with no other
\* request around: a list and a movies query under an empty search text.
C22_Witness ==
  /\ raceLast.cleared
  /\ ~raceLast.overlapped
  /\ lastOp.kind = "searchFulfilled"
  /\ lastOp.entry = "searchMovies"
  /\ inflight = <<>>
  /\ searchQuery = <<>>
  /\ moviesState.movies # <<>>
  /\ moviesState.query # <<>>

(***************************************************************************)
(* The recent searches and their stored entry                              *)
(***************************************************************************)
\* C23: every mutation of the recent searches (an addRecentSearch that
\* changes the list, removeRecentSearch, clearRecentSearches) writes the
\* resulting list to the storage within the action: when the storage accepts
\* writes, the stored list is the in-memory list right after the action.
C23_MutationsPersisted ==
  [][(/\ recOps' # recOps
      /\ storageOk
      /\ \/ recLast'.kind \in {"removeRecentSearch", "clearRecentSearches"}
         \/ recLast'.kind = "addRecentSearch" /\ recentSearches' # recentSearches)
     => lsRecent' = LsJson(recentSearches')]_vars

\* C23 witness: the last entry left was removed while the stored entry was
\* still what an earlier session (or a failed write) had left, and the
\* storage now holds the empty list.
C23_Witness ==
  /\ recLast.kind = "removeRecentSearch"
  /\ Len(recBefore) = 1
  /\ recentSearches = <<>>
  /\ storageOk
  /\ lsRecent = LsJson(<<>>)

\* The list an operation on the recent searches is to leave
ListAfter(kind, term, before) ==
  LET q == ToLowerCase(Trim(term))
      NotQ(s) == s # q
      NotTerm(s) == s # term
      added == <<q>> \o SelectSeq(before, NotQ)
  IN IF kind = "clearRecentSearches" THEN <<>>
     ELSE IF kind = "removeRecentSearch" THEN SelectSeq(before, NotTerm)
     ELSE IF Len(q) < 3 THEN before
     ELSE IF Len(added) > 10 THEN SubSeq(added, 1, 10) ELSE added

\* C24: when the write to the storage fails during addRecentSearch,
\* removeRecentSearch or clearRecentSearches, the in-memory list is updated
\* as if the write had succeeded (and the stored entry stays as it was); and
\* at start-up a missing or unparsable stored entry gives the empty list.
C24_StorageFailureDoesNotBlock ==
  [][/\ (recOps' # recOps /\ ~storageOk)
        => /\ recentSearches' = ListAfter(recLast'.kind, recLast'.term, recentSearches)
           /\ lsRecent' = lsRecent
     /\ (recOps = 0 /\ lsRecent.kind \in {"absent", "garbage"})
        => recentSearches = <<>>]_vars

\* C24 witness: a term was added to a list of entries while the storage
\* refused the write: the list has the term in front, the stored entry is
\* the old one.
C24_Witness ==
  /\ recLast.kind = "addRecentSearch"
  /\ ~storageOk
  /\ recBefore # <<>>
  /\ recentSearches # recBefore
  /\ recentSearches[1] = ToLowerCase(Trim(recLast.term))
  /\ lsRecent = LsJson(recBefore)

(***************************************************************************)
(* The favorites page                                                      *)
(***************************************************************************)
\* C25: on the favorites page the list changes only in the step in which
\* the user accepts the open confirmation; the request for a removal or for
\* clearing leaves it unchanged, and so does a rejected confirmation (and an
\* unanswered one, which is no step at all).
C25_RemovalOnlyAfterAccept ==
  [][/\ favItems' # favItems
        => /\ confirmState.state = "open"
           /\ confirmState'.state = "accepted"
     /\ confirmState'.state \in {"open", "rejected"} => favItems' = favItems]_vars

\* C25 witness: the removal of the second of three favorites was requested
\* and accepted.
C25_Witness ==
  /\ confirmState = Confirm("accepted", "remove", IdOf[2])
  /\ Len(favBefore) = 3
  /\ favBefore[2].imdbID = IdOf[2]
  /\ Len(favItems) = 2

\* The items the catalog returns for a term, over all its pages
CatalogItems(q) ==
  UNION {{RaceCatalog(q)[p][k] : k \in 1..Len(RaceCatalog(q)[p])} :
           p \in 1..Len(RaceCatalog(q))}

\* C26: whenever the result list is not empty, each of its items is one the
\* catalog returned for the session's query (state.movies.query); a
\* load-more response of an earlier query that arrives after a newer page-1
\* search was fulfilled adds nothing to the newer query's list.
C26_ListBelongsToQuery ==
  \A i \in 1..Len(moviesState.movies) :
    moviesState.movies[i] \in CatalogItems(moviesState.query)

\* C27: after a loadMoreMovies() call whose request fails, no other request
\* overlapping with it, the page cursor is what it was before the call; and
\* the cursor is at least 1 in every reachable state.
C27_FailedLoadMoreRestoresPage ==
  /\ (/\ lastOp.kind = "searchRejected"
      /\ lastOp.entry = "loadMore"
      /\ ~raceLast.overlapped)
     => moviesState.currentPage = raceLast.pageBefore
  /\ moviesState.currentPage >= 1

\* C28: after a successful page-1 search followed by loadMoreMovies() calls
\* made while hasMorePages, paging comes to an end (hasMorePages false,
\* nothing in flight) with every item loaded so far still in the result
\* list, for a catalog that serves its entries page by page, may repeat an
\* imdbID on a later page, and answers a page past the last with a
\* not-found failure.
C28_PagingKeepsResults ==
  (paging.active /\ inflight = <<>> /\ ~hasMorePages(moviesState))
  => paging.loaded \subseteq SeqIds(moviesState.movies)

\* The list without the entries equal to q
Without(searches, q) ==
  LET NotQ(s) == s # q IN SelectSeq(searches, NotQ)

\* C29: for every term t that addRecentSearch(t) records, after
\* addRecentSearch(t) followed by removeRecentSearch(t) the list holds no
\* entry for t's normalized form and is otherwise the list before the add
\* without t.
C29_RemoveUndoesAdd ==
  [][(/\ recOps' # recOps
      /\ recLast.kind = "addRecentSearch"
      /\ Len(ToLowerCase(Trim(recLast.term))) >= 3
      /\ recLast'.kind = "removeRecentSearch"
      /\ recLast'.term = recLast.term)
     => recentSearches' = Without(recBefore, ToLowerCase(Trim(recLast.term)))]_vars

\* C30: for every non-empty favorites list the year shown as the most
\* popular year is a year whose count of favorites is maximal among all
\* years, and the count shown with it is that maximal count.
C30_PopularYearHasMaxCount ==
  chartFavorites # <<>>
  => /\ popularYear(yearStats)[2] = CountOf(ChartYearValues, popularYear(yearStats)[1])
     /\ \A y \in Range(ChartYearValues) :
          CountOf(ChartYearValues, y) <= popularYear(yearStats)[2]

====
